---- MODULE Spec2Model ----
(***************************************************************************)
(* Model of sequencer/src/api/options.rs: the API options builder, and     *)
(* Options::serve / init_with_query_module, which assemble the HTTP app    *)
(* and the consensus handle in one of four topologies.                     *)
(*                                                                         *)
(* An Option<T> field is modelled by whether it is Some (Query, Submit and *)
(* Status are unit structs; the storage options are opaque to this file).  *)
(* serve() is an async fn: every call it makes is one step, and the        *)
(* variable ip is its position in the statement list of the branch taken.  *)
(***************************************************************************)
EXTENDS Integers, Sequences, FiniteSets, TLC

\* Ports the Http options are drawn from (u16 in the source).
MaxPort == 2
\* Node indices the caller-supplied init_handle may return.
MaxNodeIndex == 1
\* Distinct consensus handles the caller-supplied init_handle may return.
MaxHandle == 2
\* Events consensus emits in a run.
MaxEvents == 2

Ports == 1..MaxPort
NodeIndexes == 0..MaxNodeIndex
Handles == 1..MaxHandle
NoHandle == 0

VARIABLES
    opt,          \* the Options value (self), as the builders and take() leave it
    cfg,          \* the Options value serve() was called on
    built,        \* builders called on the Options value so far
    pc,           \* "build" | "serve" | "done"
    ip,           \* position in Program(topology) while pc = "serve"
    topology,     \* branch of serve() taken
    ds,           \* data source: "none" | "sql" | "fs" | "metrics"
    metrics,      \* metrics object handed to init_handle
    boot,         \* what init_handle returned: [handle, node_index]
    handle,       \* local `handle` of serve / init_with_query_module
    node_index,   \* local `node_index` of serve / init_with_query_module
    events,       \* handle the `events` stream was taken from (NoHandle: none)
    state,        \* app state: [ds, handle]
    registered,   \* modules registered on the app
    server,       \* app.serve future: "none" | "running" | "Ok" | "Err"
    update,       \* update_loop future: "none" | "running" | "done"
    update_task,  \* spawned task: "none" | "pending" | "Ok" | "Err"
    started,      \* handles start_consensus() was called on, in order
    result,       \* value serve() returned: "none" | "Ok" | "Err"
    node,         \* the SequencerNode returned with Ok
    failed,       \* statement whose error serve() returned ("" if none)
    calls,        \* calls made so far, in order
    emitted,      \* number of events consensus has emitted
    stream,       \* events queued in the subscription
    applied       \* events the update loop has applied

vars == <<opt, cfg, built, pc, ip, topology, ds, metrics, boot, handle, node_index, events, state,
          registered, server, update, update_task, started, result, node,
          failed, calls, emitted, stream, applied>>

handleVars == <<boot, handle, node_index>>
taskVars == <<server, update, update_task>>
eventVars == <<emitted, stream, applied>>

----------------------------------------------------------------------------
\* struct Options: every field is pub, so any combination can be constructed.
Options ==
    [http : [port : Ports], query : BOOLEAN, submit : BOOLEAN,
     status : BOOLEAN, storage_fs : BOOLEAN, storage_sql : BOOLEAN]

\* impl From<Http> for Options
From(http) ==
    [http |-> http, query |-> FALSE, submit |-> FALSE, status |-> FALSE,
     storage_fs |-> FALSE, storage_sql |-> FALSE]

\* Variant: choosing the SQL storage drops a filesystem storage chosen before.
query_sql_exclusive(self) ==
    [self EXCEPT !.query = TRUE, !.storage_sql = TRUE, !.storage_fs = FALSE]

\* Options::query_sql
query_sql(self) == [self EXCEPT !.query = TRUE, !.storage_sql = TRUE]

\* Variant: choosing the filesystem storage drops an SQL storage chosen before.
query_fs_exclusive(self) ==
    [self EXCEPT !.query = TRUE, !.storage_fs = TRUE, !.storage_sql = FALSE]

\* Options::query_fs
query_fs(self) == [self EXCEPT !.query = TRUE, !.storage_fs = TRUE]

\* Options::submit
submit(self) == [self EXCEPT !.submit = TRUE]

\* Options::status
status(self) == [self EXCEPT !.status = TRUE]

\* Options::has_query_module
has_query_module(self) ==
    self.query /\ (self.storage_fs \/ self.storage_sql)

\* Values of the locals before they are bound.
NoIndex == -1
NoBoot == [handle |-> NoHandle, node_index |-> NoIndex]
NoState == [ds |-> "none", handle |-> NoHandle]
NoNode == [handle |-> NoHandle, node_index |-> NoIndex, update_task |-> "none"]

----------------------------------------------------------------------------
\* Variant: the filesystem storage is tested before the SQL storage.
SelectTopologyFsFirst(self) ==
    IF self.storage_fs THEN "QueryFs"
    ELSE IF self.storage_sql THEN "QuerySql"
    ELSE IF self.status THEN "StatusOnly"
    ELSE "Minimal"

\* Variant: without storage the metrics data source and the status module
\* are set up whether or not status was asked for.
SelectTopologyNoMinimal(self) ==
    IF self.storage_sql THEN "QuerySql"
    ELSE IF self.storage_fs THEN "QueryFs"
    ELSE "StatusOnly"

\* serve(): the if / else-if chain that picks the branch (first match wins).
SelectTopology(self) ==
    IF self.storage_sql THEN "QuerySql"
    ELSE IF self.storage_fs THEN "QueryFs"
    ELSE IF self.status THEN "StatusOnly"
    ELSE "Minimal"

\* serve(): the Option::take() calls of the chain. storage_fs.take() is only
\* evaluated when storage_sql was None.
TakeStorage(self) ==
    IF self.storage_sql THEN [self EXCEPT !.storage_sql = FALSE]
    ELSE IF self.storage_fs THEN [self EXCEPT !.storage_fs = FALSE]
    ELSE self

IsQuery(t) == t \in {"QuerySql", "QueryFs"}

\* Variant: the event stream is taken after consensus was started.
QueryProgramLateSubscribe ==
    <<"create", "init_handle", "with_state", "submit", "status", "availability",
      "spawn", "start_consensus", "get_event_stream", "return">>

\* Variant: the server task is spawned before the modules are registered.
QueryProgramSpawnEarly ==
    <<"create", "init_handle", "get_event_stream", "with_state", "spawn",
      "submit", "status", "availability", "start_consensus", "return">>

\* Statements of init_with_query_module followed by the tail of serve().
QueryProgram ==
    <<"create", "init_handle", "get_event_stream", "with_state",
      "submit", "status", "availability", "spawn", "start_consensus", "return">>

\* Variant: consensus is started before the server task is spawned.
StatusProgramStartFirst ==
    <<"default", "init_handle", "with_state", "status", "submit",
      "start_consensus", "spawn", "return">>

\* Variant: the status branch takes an event stream as the query branches do.
StatusProgramSubscribes ==
    <<"default", "init_handle", "get_event_stream", "with_state", "status",
      "submit", "spawn", "start_consensus", "return">>

\* Statements of the status-only branch followed by the tail of serve().
StatusProgram ==
    <<"default", "init_handle", "with_state", "status", "submit",
      "spawn", "start_consensus", "return">>

\* Variant: the branch starts consensus itself, and the tail of serve() again.
MinimalProgramStartsTwice ==
    <<"init_handle", "with_state", "submit", "spawn", "start_consensus",
      "start_consensus", "return">>

\* Statements of the minimal branch followed by the tail of serve().
MinimalProgram ==
    <<"init_handle", "with_state", "submit", "spawn", "start_consensus", "return">>

Program(t) ==
    IF IsQuery(t) THEN QueryProgram
    ELSE IF t = "StatusOnly" THEN StatusProgram
    ELSE IF t = "Minimal" THEN MinimalProgram
    ELSE <<>>

\* The statement serve() is about to execute.
Stmt ==
    IF pc = "serve" /\ ip <= Len(Program(topology)) THEN Program(topology)[ip] ELSE ""

\* Variant: the submit module is registered without testing the option.
WantSubmitAlways(t, self) == TRUE

\* Variant: init_with_query_module does not register the status module.
WantStatusOnlyBranch(t, self) == t = "StatusOnly"

\* Variant: availability is registered only when the query option is set.
WantAvailabilityIfQuery(t, self) == IsQuery(t) /\ self.query

\* `if opt.submit.is_some()` / `if self.submit.is_some()`, in every branch.
WantSubmit(t, self) == self.submit

\* `if opt.status.is_some()` in init_with_query_module; the status branch
\* (entered on self.status.is_some()) registers status without a further test.
WantStatus(t, self) == t = "StatusOnly" \/ (IsQuery(t) /\ self.status)

\* init_with_query_module registers availability without any test.
WantAvailability(t, self) == IsQuery(t)

Wanted(m, t, self) ==
    IF m = "submit" THEN WantSubmit(t, self)
    ELSE IF m = "status" THEN WantStatus(t, self)
    ELSE WantAvailability(t, self)

\* Variant: the task is ready as soon as either future is (a select).
Select0(srv, upd) ==
    IF srv # "running" THEN srv
    ELSE IF upd # "running" THEN "Ok"
    ELSE "pending"

\* futures::join!(app.serve(..), update_loop(..)).0 : ready once both futures
\* are, with the first one's output.
Join0(srv, upd) ==
    IF srv # "running" /\ upd # "running" THEN srv ELSE "pending"

\* What the spawned task evaluates to, given its futures.
TaskPoll(t, srv, upd) ==
    IF IsQuery(t) THEN Join0(srv, upd)
    ELSE IF srv = "running" THEN "pending" ELSE srv

----------------------------------------------------------------------------
\* State before any builder is called: an Options value. Its fields are pub,
\* so serve() can be handed any combination of them.
Init ==
    /\ opt \in Options
    /\ cfg = opt
    /\ built = {}
    /\ pc = "build"
    /\ ip = 0
    /\ topology = "none"
    /\ ds = "none"
    /\ metrics = "none"
    /\ boot = NoBoot
    /\ handle = NoHandle
    /\ node_index = NoIndex
    /\ events = NoHandle
    /\ state = NoState
    /\ registered = {}
    /\ server = "none"
    /\ update = "none"
    /\ update_task = "none"
    /\ started = <<>>
    /\ result = "none"
    /\ node = NoNode
    /\ failed = ""
    /\ calls = <<>>
    /\ emitted = 0
    /\ stream = <<>>
    /\ applied = <<>>

\* Options::from(http): the state the builders start from.
InitFrom ==
    /\ Init
    /\ \E p \in Ports : opt = From([port |-> p])

serveVars == <<pc, ip, topology, ds, metrics, boot, handle, node_index, events,
               state, registered, server, update, update_task, started, result,
               node, failed, calls, emitted, stream, applied>>

\* A builder call: self is consumed and the new value returned.
Build(name, new) ==
    /\ pc = "build"
    /\ opt' = new
    /\ cfg' = new
    /\ built' = built \cup {name}
    /\ UNCHANGED serveVars

CallQuerySql == Build("query_sql", query_sql(opt))
CallQueryFs == Build("query_fs", query_fs(opt))
CallSubmit == Build("submit", submit(opt))
CallStatus == Build("status", status(opt))

\* serve() is entered: the branch is chosen and the storage options taken.
Serve ==
    /\ pc = "build"
    /\ pc' = "serve"
    /\ cfg' = opt
    /\ topology' = SelectTopology(opt)
    /\ opt' = TakeStorage(opt)
    /\ ip' = 1
    /\ UNCHANGED <<built, ds, metrics, handleVars, events, state, registered,
                   taskVars, started, result, node, failed, calls, eventVars>>

\* A `?` that returns the error to the caller of serve().
Fail(stmt) ==
    /\ result' = "Err"
    /\ failed' = stmt
    /\ pc' = "done"
    /\ UNCHANGED ip

\* Control passes to the next statement.
Advance ==
    /\ ip' = ip + 1
    /\ UNCHANGED <<pc, result, failed>>

\* Variant: the error of D::create is dropped and serve() carries on.
CreateIgnoringError ==
    /\ Stmt = "create"
    /\ \E ok \in BOOLEAN :
          IF ok
          THEN /\ ds' = (IF topology = "QuerySql" THEN "sql" ELSE "fs")
               /\ calls' = Append(calls, "create")
          ELSE /\ ds' = ds
               /\ calls' = Append(calls, "create:Err")
    /\ Advance
    /\ UNCHANGED <<built, opt, cfg, topology, metrics, handleVars, events, state,
                   registered, taskVars, started, node, eventVars>>

\* Variant: a failed D::create is tried once more before the error is returned.
CreateRetrying ==
    /\ Stmt = "create"
    /\ \E ok \in BOOLEAN :
          IF ok
          THEN /\ ds' = (IF topology = "QuerySql" THEN "sql" ELSE "fs")
               /\ calls' = Append(calls, "create")
               /\ Advance
          ELSE /\ ds' = ds
               /\ calls' = Append(calls, "create:Err")
               /\ IF \E i \in 1..Len(calls) : calls[i] = "create:Err"
                  THEN Fail("create")
                  ELSE UNCHANGED <<pc, ip, result, failed>>
    /\ UNCHANGED <<built, opt, cfg, topology, metrics, handleVars, events, state,
                   registered, taskVars, started, node, eventVars>>

\* let ds = D::create(mod_opt, false).await?;
Create ==
    /\ Stmt = "create"
    /\ \E ok \in BOOLEAN :
          IF ok
          THEN /\ ds' = (IF topology = "QuerySql" THEN "sql" ELSE "fs")
               /\ calls' = Append(calls, "create")
               /\ Advance
          ELSE /\ ds' = ds
               /\ calls' = Append(calls, "create:Err")
               /\ Fail("create")
    /\ UNCHANGED <<built, opt, cfg, topology, metrics, handleVars, events, state,
                   registered, taskVars, started, node, eventVars>>

\* let ds = MetricsDataSource::default();
Default ==
    /\ Stmt = "default"
    /\ ds' = "metrics"
    /\ calls' = Append(calls, "default")
    /\ Advance
    /\ UNCHANGED <<built, opt, cfg, topology, metrics, handleVars, events, state,
                   registered, taskVars, started, node, eventVars>>

\* Variant: every branch hands init_handle the no-op metrics.
MetricsArgNoMetrics(t, d) == "NoMetrics"

\* The metrics object handed to init_handle: ds.populate_metrics(), or
\* Box::new(NoMetrics) in the minimal branch.
MetricsArg(t, d) == IF t = "Minimal" THEN "NoMetrics" ELSE d

\* let (handle, node_index) = init_handle(metrics).await;
InitHandle ==
    /\ Stmt = "init_handle"
    /\ metrics' = MetricsArg(topology, ds)
    /\ \E h \in Handles, n \in NodeIndexes :
          /\ boot' = [handle |-> h, node_index |-> n]
          /\ handle' = h
          /\ node_index' = n
    /\ calls' = Append(calls, "init_handle")
    /\ Advance
    /\ UNCHANGED <<built, opt, cfg, topology, ds, events, state, registered, taskVars,
                   started, node, eventVars>>

\* let events = handle.get_event_stream(Default::default()).await.0;
GetEventStream ==
    /\ Stmt = "get_event_stream"
    /\ events' = handle
    /\ calls' = Append(calls, "get_event_stream")
    /\ Advance
    /\ UNCHANGED <<built, opt, cfg, topology, ds, metrics, handleVars, state, registered,
                   taskVars, started, node, eventVars>>

\* App::with_state(..) over the data source (if any) and handle.clone().
WithState ==
    /\ Stmt = "with_state"
    /\ state' = [ds |-> ds, handle |-> handle]
    /\ Advance
    /\ UNCHANGED <<built, opt, cfg, topology, ds, metrics, handleVars, events, registered,
                   taskVars, started, node, calls, eventVars>>

\* if <module wanted> { let api = <define>?; app.register_module(m, api)?; }
RegisterModule(m) ==
    /\ Stmt = m
    /\ IF ~Wanted(m, topology, opt)
       THEN /\ Advance
            /\ UNCHANGED <<registered, calls>>
       ELSE \E outcome \in {"define_err", "register_err", "ok"} :
              IF outcome = "define_err"
              THEN /\ calls' = Append(calls, "define")
                   /\ Fail(m)
                   /\ UNCHANGED registered
              ELSE IF outcome = "register_err"
              THEN /\ calls' = calls \o <<"define", "register_module">>
                   /\ Fail(m)
                   /\ UNCHANGED registered
              ELSE /\ calls' = calls \o <<"define", "register_module">>
                   /\ registered' = registered \cup {m}
                   /\ Advance
    /\ UNCHANGED <<built, opt, cfg, topology, ds, metrics, handleVars, events, state,
                   taskVars, started, node, eventVars>>

RegisterSubmit == RegisterModule("submit")
RegisterStatus == RegisterModule("status")
RegisterAvailability == RegisterModule("availability")

\* Variant: the node is built with a default node index.
SpawnDefaultIndex ==
    /\ Stmt = "spawn"
    /\ server' = "running"
    /\ update' = (IF IsQuery(topology) THEN "running" ELSE "none")
    /\ update_task' = TaskPoll(topology, server', update')
    /\ node' = [handle |-> handle, node_index |-> 0, update_task |-> "task"]
    /\ calls' = Append(calls, "spawn")
    /\ Advance
    /\ UNCHANGED <<built, opt, cfg, topology, ds, metrics, handleVars, events, state,
                   registered, started, eventVars>>

\* update_task: spawn(..) and the SequencerNode { handle, node_index, update_task }
\* built around it.
Spawn ==
    /\ Stmt = "spawn"
    /\ server' = "running"
    /\ update' = (IF IsQuery(topology) THEN "running" ELSE "none")
    /\ update_task' = TaskPoll(topology, server', update')
    /\ node' = [handle |-> handle, node_index |-> node_index, update_task |-> "task"]
    /\ calls' = Append(calls, "spawn")
    /\ Advance
    /\ UNCHANGED <<built, opt, cfg, topology, ds, metrics, handleVars, events, state,
                   registered, started, eventVars>>

\* node.handle.hotshot.start_consensus().await;
StartConsensus ==
    /\ Stmt = "start_consensus"
    /\ started' = Append(started, node.handle)
    /\ calls' = Append(calls, "start_consensus")
    /\ Advance
    /\ UNCHANGED <<built, opt, cfg, topology, ds, metrics, handleVars, events, state,
                   registered, taskVars, node, eventVars>>

\* Ok(node)
Return ==
    /\ Stmt = "return"
    /\ result' = "Ok"
    /\ pc' = "done"
    /\ UNCHANGED <<built, opt, cfg, ip, topology, ds, metrics, handleVars, events, state,
                   registered, taskVars, started, node, failed, calls, eventVars>>

----------------------------------------------------------------------------
\* The futures of the spawned task, which run concurrently with the rest of
\* serve() and with its caller.

runVars == <<built, opt, cfg, pc, ip, topology, ds, metrics, handleVars, events, state,
             registered, started, result, node, failed, calls>>

\* Variant: serve() awaits the listener, so that its error ends serve().
ServerTerminatesAborts ==
    /\ server = "running"
    /\ \E r \in {"Ok", "Err"} :
          /\ server' = r
          /\ IF r = "Err" /\ pc = "serve"
             THEN /\ result' = "Err"
                  /\ failed' = "serve"
                  /\ pc' = "done"
             ELSE UNCHANGED <<result, failed, pc>>
    /\ update' = update
    /\ update_task' = TaskPoll(topology, server', update')
    /\ UNCHANGED <<built, opt, cfg, ip, topology, ds, metrics, handleVars, events,
                   state, registered, started, node, calls, eventVars>>

\* app.serve(..).map_err(anyhow::Error::from) resolves: the listener failed to
\* bind or crashed (Err), or stopped (Ok).
ServerTerminates ==
    /\ server = "running"
    /\ \E r \in {"Ok", "Err"} : server' = r
    /\ update' = update
    /\ update_task' = TaskPoll(topology, server', update')
    /\ UNCHANGED <<runVars, eventVars>>

\* update_loop(state, events) returns (its stream ended).
UpdateLoopTerminates ==
    /\ update = "running"
    /\ update' = "done"
    /\ server' = server
    /\ update_task' = TaskPoll(topology, server', update')
    /\ UNCHANGED <<runVars, eventVars>>

\* Consensus, once started, emits an event; it reaches the subscription taken
\* from that handle, if there is one.
ConsensusEmit ==
    /\ started # <<>>
    /\ emitted < MaxEvents
    /\ emitted' = emitted + 1
    /\ stream' = (IF events # NoHandle /\ events = started[1]
                  THEN Append(stream, emitted') ELSE stream)
    /\ UNCHANGED <<runVars, taskVars, applied>>

\* update_loop takes the next event of its stream and applies it to the state.
UpdateLoopStep ==
    /\ update = "running"
    /\ stream # <<>>
    /\ applied' = Append(applied, Head(stream))
    /\ stream' = Tail(stream)
    /\ UNCHANGED <<runVars, taskVars, emitted>>

Next ==
    \/ CallQuerySql
    \/ CallQueryFs
    \/ CallSubmit
    \/ CallStatus
    \/ Serve
    \/ Create
    \/ Default
    \/ InitHandle
    \/ GetEventStream
    \/ WithState
    \/ RegisterSubmit
    \/ RegisterStatus
    \/ RegisterAvailability
    \/ Spawn
    \/ StartConsensus
    \/ Return
    \/ ServerTerminates
    \/ UpdateLoopTerminates
    \/ ConsensusEmit
    \/ UpdateLoopStep

Spec == Init /\ [][Next]_vars

\* The options are built from Options::from(http) by the builders alone.
SpecBuilder == InitFrom /\ [][Next]_vars

----------------------------------------------------------------------------
\* Properties.

Called(c) == \E i \in 1..Len(calls) : calls[i] = c
HasStorage(self) == self.storage_sql \/ self.storage_fs

\* C1: in both query topologies, whenever start_consensus() has been called,
\* get_event_stream was called earlier on the same handle: consensus is never
\* started while the event subscription does not exist.
C1_SubscribedBeforeStart ==
    IsQuery(topology) =>
        /\ started # <<>> => (events # NoHandle /\ events = started[1])
        /\ \A i \in 1..Len(calls) :
              calls[i] = "start_consensus" =>
                 \E j \in 1..(i - 1) : calls[j] = "get_event_stream"
C1_Witness ==
    /\ IsQuery(topology)
    /\ started # <<>>
    /\ events = started[1]
    /\ Called("get_event_stream")

\* C2: the branch serve() takes is the first match of: storage_sql set ->
\* Query-over-SQL, storage_fs set -> Query-over-FS, status set -> Status-only,
\* otherwise Minimal; with both storages set the SQL branch is taken and no
\* filesystem data source is created.
C2_FirstMatchTopology ==
    pc # "build" =>
        /\ cfg.storage_sql => topology = "QuerySql"
        /\ (~cfg.storage_sql /\ cfg.storage_fs) => topology = "QueryFs"
        /\ (~HasStorage(cfg) /\ cfg.status) => topology = "StatusOnly"
        /\ (~HasStorage(cfg) /\ ~cfg.status) => topology = "Minimal"
        /\ (cfg.storage_sql /\ cfg.storage_fs) => (ds # "fs" /\ state.ds # "fs")
C2_Witness ==
    /\ result = "Ok"
    /\ cfg.storage_sql /\ cfg.storage_fs
    /\ topology = "QuerySql"
    /\ state.ds = "sql"

\* C3: once the data source's create call has failed, serve() has returned an
\* error and no module was defined or registered, consensus was not started,
\* no event stream was taken and no task was spawned.
C3_CreateFailureNoSideEffects ==
    Called("create:Err") =>
        /\ pc = "done" /\ result = "Err"
        /\ registered = {}
        /\ ~Called("define") /\ ~Called("register_module")
        /\ started = <<>> /\ ~Called("start_consensus")
        /\ events = NoHandle /\ ~Called("get_event_stream")
        /\ server = "none" /\ update = "none" /\ update_task = "none"
        /\ ~Called("spawn")
C3_Witness ==
    /\ Called("create:Err")
    /\ result = "Err"
    /\ cfg.submit /\ cfg.status

\* C4: whenever serve() has returned an error, no server task and no update
\* loop was spawned and start_consensus() was not called.
C4_ErrorMeansNothingRunning ==
    result = "Err" =>
        /\ server = "none" /\ update = "none" /\ update_task = "none"
        /\ ~Called("spawn")
        /\ started = <<>> /\ ~Called("start_consensus")
C4_Witness ==
    /\ result = "Err"
    /\ failed = "availability"
    /\ registered = {"submit", "status"}

\* C5 as stated: in a query topology the spawned task is complete as soon as
\* either the server or the update loop has terminated, with the error of
\* the one that terminated.
C5_EitherTerminationCompletes ==
    (IsQuery(topology) /\ (server \in {"Ok", "Err"} \/ update = "done")) =>
        /\ update_task \in {"Ok", "Err"}
        /\ server = "Err" => update_task = "Err"

\* C5 as amended: in a query topology the spawned task is complete exactly
\* when both the server and the update loop have terminated, and its result
\* is then the server's result.
C5_BothTerminationsComplete ==
    (IsQuery(topology) /\ server # "none") =>
        /\ update_task \in {"Ok", "Err"} <=> (server \in {"Ok", "Err"} /\ update = "done")
        /\ update_task \in {"pending", server}
C5_Witness ==
    /\ IsQuery(topology)
    /\ server = "Err"
    /\ update = "done"
    /\ update_task = "Err"

\* C6: when serve() has returned Ok, the submit module is registered iff the
\* submit option was set, in each of the four topologies.
C6_SubmitIffOption ==
    result = "Ok" => ("submit" \in registered <=> cfg.submit)
C6_Witness ==
    /\ result = "Ok"
    /\ topology = "Minimal"
    /\ cfg.submit
    /\ registered = {"submit"}

\* C7: when serve() has returned Ok, the status module is registered iff the
\* status option was set: always in Status-only, never in Minimal.
C7_StatusIffOption ==
    result = "Ok" =>
        /\ "status" \in registered <=> cfg.status
        /\ topology = "StatusOnly" => "status" \in registered
        /\ topology = "Minimal" => "status" \notin registered
C7_Witness ==
    /\ result = "Ok"
    /\ IsQuery(topology)
    /\ cfg.status
    /\ "status" \in registered

\* C8: when serve() has returned Ok, the availability module is registered
\* iff a storage backend was set, whatever query, submit and status are.
C8_AvailabilityIffStorage ==
    result = "Ok" =>
        /\ "availability" \in registered <=> HasStorage(cfg)
        /\ IsQuery(topology) <=> HasStorage(cfg)
C8_Witness ==
    /\ result = "Ok"
    /\ ~cfg.query /\ ~cfg.submit /\ ~cfg.status
    /\ cfg.storage_fs
    /\ registered = {"availability"}

\* C9: has_query_module() of the options serve() was called on is true
\* exactly when serve() builds a query topology and registers availability.
C9_HasQueryModuleMatchesServe ==
    result = "Ok" =>
        (has_query_module(cfg) <=>
            (IsQuery(topology) /\ "availability" \in registered))

\* C10: with no storage backend, no status and no submit option, serve()
\* makes no fallible call, registers no module and returns Ok.
C10_MinimalNeverFails ==
    (pc # "build" /\ ~HasStorage(cfg) /\ ~cfg.status /\ ~cfg.submit) =>
        /\ topology = "Minimal"
        /\ result # "Err"
        /\ pc = "done" => result = "Ok"
        /\ registered = {}
        /\ ~Called("create") /\ ~Called("create:Err")
        /\ ~Called("define") /\ ~Called("register_module")
C10_Witness ==
    /\ result = "Ok"
    /\ cfg = From(cfg.http)
    /\ registered = {}
    /\ server = "running"

Count(c) == Cardinality({i \in 1..Len(calls) : calls[i] = c})

\* Stage of the startup a call belongs to.
Stage(c) ==
    IF c \in {"create", "create:Err", "default"} THEN 1
    ELSE IF c = "init_handle" THEN 2
    ELSE IF c = "get_event_stream" THEN 3
    ELSE IF c \in {"define", "register_module"} THEN 4
    ELSE IF c = "spawn" THEN 5
    ELSE 6

\* C11: the calls of serve() occur in the order data source, init_handle,
\* get_event_stream (query topologies only), module registrations, spawn,
\* start_consensus, and then the return; none but a registration occurs
\* twice, and the server task is spawned before consensus is started.
C11_StartupOrder ==
    /\ \A i, j \in 1..Len(calls) : i < j => Stage(calls[i]) <= Stage(calls[j])
    /\ \A c \in {"create", "create:Err", "default", "init_handle",
                 "get_event_stream", "spawn", "start_consensus"} : Count(c) <= 1
    /\ Count("create") + Count("create:Err") + Count("default") <= 1
    /\ started # <<>> => (server # "none" /\ Called("spawn"))
    /\ result = "Ok" =>
          /\ Count("create") = (IF IsQuery(topology) THEN 1 ELSE 0)
          /\ Count("default") = (IF topology = "StatusOnly" THEN 1 ELSE 0)
          /\ Count("init_handle") = 1
          /\ Count("get_event_stream") = (IF IsQuery(topology) THEN 1 ELSE 0)
          /\ Count("register_module") = Cardinality(registered)
          /\ Count("spawn") = 1
          /\ Count("start_consensus") = 1
          /\ calls[Len(calls)] = "start_consensus"
C11_Witness ==
    /\ result = "Ok"
    /\ topology = "QueryFs"
    /\ registered = {"submit", "status", "availability"}
    /\ Len(calls) = 11

\* C12: in the Status-only and Minimal topologies no event stream is taken
\* and no update loop is started: the spawned task is the server alone. In
\* Status-only without submit, status is the only module registered.
C12_NoSubscriptionWithoutStorage ==
    topology \in {"StatusOnly", "Minimal"} =>
        /\ events = NoHandle /\ ~Called("get_event_stream")
        /\ update = "none"
        /\ stream = <<>> /\ applied = <<>>
        /\ server = "running" => update_task = "pending"
        /\ server \in {"Ok", "Err"} => update_task = server
        /\ (result = "Ok" /\ topology = "StatusOnly" /\ ~cfg.submit) =>
              registered = {"status"}
C12_Witness ==
    /\ topology = "StatusOnly"
    /\ ~cfg.submit
    /\ result = "Ok"
    /\ registered = {"status"}
    /\ emitted > 0
    /\ update_task = "Err"

\* C13: when serve() has returned Ok, the node it returned carries the
\* handle and the node index init_handle returned, and start_consensus() was
\* called on that handle, which is also the one cloned into the app state.
C13_NodeIsBootstrapped ==
    result = "Ok" =>
        /\ boot.handle \in Handles
        /\ node.handle = boot.handle
        /\ node.node_index = boot.node_index
        /\ started = <<boot.handle>>
        /\ state.handle = boot.handle
C13_Witness ==
    /\ result = "Ok"
    /\ boot = [handle |-> MaxHandle, node_index |-> MaxNodeIndex]
    /\ node.node_index = MaxNodeIndex
    /\ started = <<MaxHandle>>

\* C14: a failure of the HTTP listener does not change what serve()
\* returns: with the listener failed, serve() has not returned an error on
\* its account and returns Ok once construction and registration succeeded;
\* the failure shows in the spawned task alone.
C14_ListenerFailureNotReturned ==
    /\ server = "Err" =>
          /\ result # "Err"
          /\ failed = ""
          /\ pc = "done" => result = "Ok"
          /\ update_task \in {"pending", "Err"}
    /\ result = "Err" => failed \in {"create", "submit", "status", "availability"}
    /\ (pc = "done" /\ failed = "") => result = "Ok"
C14_Witness ==
    /\ server = "Err"
    /\ result = "Ok"
    /\ update_task = "Err"
    /\ topology = "QuerySql"

\* C15: the metrics handed to init_handle are those of the data source that
\* is then wrapped into the app state, in the Query-over-SQL, Query-over-FS
\* and Status-only topologies; the Minimal topology alone hands it NoMetrics.
C15_MetricsOfServedDataSource ==
    Called("init_handle") =>
        /\ topology = "QuerySql" => metrics = "sql"
        /\ topology = "QueryFs" => metrics = "fs"
        /\ topology = "StatusOnly" => metrics = "metrics"
        /\ topology = "Minimal" <=> metrics = "NoMetrics"
        /\ (state # NoState /\ topology # "Minimal") => state.ds = metrics
        /\ (state # NoState /\ topology = "Minimal") => state.ds = "none"
C15_Witness ==
    /\ result = "Ok"
    /\ topology = "StatusOnly"
    /\ metrics = "metrics"
    /\ state.ds = "metrics"

\* C16 as stated: options built by the builders have at most one of the two
\* storage backends set.
C16_AtMostOneStorage ==
    ~(cfg.storage_fs /\ cfg.storage_sql)

\* C16 as amended: options built by the builders have storage_sql set iff
\* query_sql was called and storage_fs set iff query_fs was called, so that
\* both are set exactly when both builders were called.
C16_StorageIffBuilderCalled ==
    /\ cfg.storage_sql <=> "query_sql" \in built
    /\ cfg.storage_fs <=> "query_fs" \in built
    /\ (cfg.storage_sql /\ cfg.storage_fs) <=> {"query_sql", "query_fs"} \subseteq built
    /\ Cardinality(built \cap {"query_sql", "query_fs"}) <= 1 =>
          ~(cfg.storage_sql /\ cfg.storage_fs)
C16_Witness ==
    /\ pc = "build"
    /\ built = {"query_sql", "query_fs"}
    /\ opt.storage_sql /\ opt.storage_fs

\* The events consensus has emitted, in order.
Emitted == [i \in 1..emitted |-> i]

\* C17: in a query topology one event stream is taken in a run, from the
\* handle init_handle returned and before consensus is started on it, and
\* it is the stream the update loop reads: the events consensus has emitted
\* are exactly those the loop has applied followed by those still queued.
C17_OneSubscriptionNoEventMissed ==
    IsQuery(topology) =>
        /\ Count("get_event_stream") <= 1
        /\ update # "none" => (Count("get_event_stream") = 1 /\ events = boot.handle)
        /\ started # <<>> => events = started[1]
        /\ applied \o stream = Emitted
C17_Witness ==
    /\ IsQuery(topology)
    /\ emitted = 2
    /\ applied = <<1>>
    /\ stream = <<2>>

\* C18: init_handle is called at most once in a run: once when the data
\* source was created or none is needed, never when its creation failed;
\* and the creation is attempted at most once.
C18_BootstrapOnce ==
    /\ Count("init_handle") <= 1
    /\ Count("create") + Count("create:Err") <= 1
    /\ Called("create:Err") => Count("init_handle") = 0
    /\ (pc = "done" /\ ~Called("create:Err")) => Count("init_handle") = 1
    /\ Called("create") => (Stmt = "init_handle" \/ Count("init_handle") = 1)
    /\ Count("init_handle") = 1 <=> boot # NoBoot
C18_Witness ==
    /\ pc = "done"
    /\ result = "Err"
    /\ Called("create")
    /\ Count("init_handle") = 1

\* What serve() has launched when it returns Ok.
C19_LaunchedOnce ==
    result = "Ok" =>
        /\ Count("start_consensus") = 1 /\ Len(started) = 1
        /\ Count("spawn") = 1 /\ server # "none"
        /\ IsQuery(topology) => update # "none"
        /\ ~IsQuery(topology) => update = "none"

\* A future that has terminated stays terminated, and the task's result stays.
C19_NoRelaunch ==
    /\ server \in {"Ok", "Err"} => server' = server
    /\ update = "done" => update' = "done"
    /\ server # "none" => server' # "none"
    /\ update_task \in {"Ok", "Err"} => update_task' = update_task

\* C19: when serve() has returned Ok, start_consensus() was called once, one
\* server task was launched, the update loop was launched once in a query
\* topology and not at all otherwise; and a task that has terminated is
\* never launched again.
C19_LaunchedOnceNeverAgain ==
    []C19_LaunchedOnce /\ [][C19_NoRelaunch]_vars
C19_Witness ==
    /\ result = "Ok"
    /\ IsQuery(topology)
    /\ server = "Err"
    /\ update = "done"
    /\ Len(started) = 1

\* The options the builders named in b produce from Options::from(http).
OptionsOfBuilt(b, http) ==
    [http |-> http,
     query |-> ("query_sql" \in b \/ "query_fs" \in b),
     submit |-> "submit" \in b,
     status |-> "status" \in b,
     storage_fs |-> "query_fs" \in b,
     storage_sql |-> "query_sql" \in b]

\* The options, the topology and the modules depend on the set of builders
\* called alone.
C20_SetOfBuildersDecides ==
    /\ cfg = OptionsOfBuilt(built, cfg.http)
    /\ pc # "build" =>
          topology = (IF "query_sql" \in built THEN "QuerySql"
                      ELSE IF "query_fs" \in built THEN "QueryFs"
                      ELSE IF "status" \in built THEN "StatusOnly"
                      ELSE "Minimal")
    /\ result = "Ok" =>
          registered = (built \cap {"submit", "status"}) \cup
                       (IF built \cap {"query_sql", "query_fs"} # {}
                        THEN {"availability"} ELSE {})

\* A builder call changes the fields of its builder and no other.
C20_Frame ==
    (pc = "build" /\ pc' = "build") =>
        /\ opt'.http = opt.http
        /\ \A f \in {"query", "submit", "status", "storage_fs", "storage_sql"} :
              opt'[f] # opt[f] =>
                 /\ opt'[f]
                 /\ \/ f \in {"query", "storage_sql"} /\ built' = built \cup {"query_sql"}
                    \/ f \in {"query", "storage_fs"} /\ built' = built \cup {"query_fs"}
                    \/ f = "submit" /\ built' = built \cup {"submit"}
                    \/ f = "status" /\ built' = built \cup {"status"}

\* C20: each builder sets its own fields and leaves the others, the port
\* included, as they were; so the options built from Options::from(http),
\* the topology serve() selects and the modules it registers depend on which
\* builders were called and not on their order (query_sql and query_fs in
\* either order select Query-over-SQL).
C20_BuildersCommute ==
    []C20_SetOfBuildersDecides /\ [][C20_Frame]_vars
C20_Witness ==
    /\ built = {"query_sql", "query_fs", "submit"}
    /\ topology = "QuerySql"
    /\ result = "Ok"
    /\ registered = {"submit", "availability"}

====
